---- MODULE Spec2Model ----
(***************************************************************************)
(* next-hook-form-example: the useForm form controller (hooks/useForm.tsx), *)
(* the yup schema it validates against (schema/formSchema.ts), the form     *)
(* view's inputs (components/TheForm.tsx), the edge submission handler      *)
(* (pages/api/form.ts) and the page that mounts the form and submits it     *)
(* (pages/index.tsx).                                                       *)
(*                                                                          *)
(* The specifications share the variables:                                  *)
(*   Spec        the form controller of one mounted form                    *)
(*   SpecSchema  the schema check applied to candidate payloads             *)
(*   SpecHandler the submission handler serving requests                    *)
(*   SpecShared  the controller and the handler given the same payload      *)
(*   SpecPage    the page: the form, its buttons and the submit flow        *)
(***************************************************************************)
EXTENDS Integers, Sequences, FiniteSets, TLC

VARIABLES
    initialFormData,  \* useForm prop: the InitialFormState snapshot
    formData,         \* useState<FormData>: FormState
    errors,           \* useState<{[key]: string}>: ErrorState
    inflight,         \* validateForm calls suspended on `await schema.validate`
    last,             \* the controller operation that completed last, and its result
    candidate,        \* SpecSchema: the payload handed to the schema
    verdict,          \* SpecSchema: what the schema check settled to
    request,          \* SpecHandler: the request being served
    hstate,           \* SpecHandler: Idle, Received, Validating, Accepted, Rejected
    response,         \* SpecHandler: the Response returned (or none yet)
    isLoading,        \* pages/index.tsx useState<boolean>
    disableClientValidation,  \* pages/index.tsx useState<boolean>
    serverResponse,   \* pages/index.tsx useState: the parsed body last received, or null
    responseCode,     \* pages/index.tsx useState<number>
    submits           \* pages/index.tsx: handleSubmit calls suspended on an await

vars == <<initialFormData, formData, errors, inflight, last,
          candidate, verdict, request, hstate, response,
          isLoading, disableClientValidation, serverResponse, responseCode, submits>>

ctlVars == <<initialFormData, formData, errors, inflight, last>>
schemaVars == <<candidate, verdict>>
handlerVars == <<request, hstate, response>>
pageVars == <<isLoading, disableClientValidation, serverResponse, responseCode, submits>>

----------------------------------------------------------------------------
(* Bounds of the model *)

\* validateForm calls that may be suspended at once
MaxInFlight == 1
\* longest favTeams array the schema specification draws
MaxTeams == 4
\* handleSubmit calls of the page that may be suspended at once
MaxSubmits == 1

----------------------------------------------------------------------------
(* schema/formSchema.ts *)

\* declaration order of the fields of formSchema
Fields == <<"fullName", "email", "phone", "password", "favTeams", "acceptTerms">>

FieldSet == {Fields[i] : i \in 1..Len(Fields)}

\* Object.keys(E_FavTeams)
favTeams == {"arsenal", "astonVilla", "brentford", "brighton", "burnley", "chelsea",
             "crystalPalace", "everton", "fulham", "leedsUnited", "leicesterCity",
             "liverpool"}

FullNameMin == 3
FullNameMax == 40
FavTeamsMin == 1
FavTeamsMax == 3
PasswordMin == 8

\* one violation as yup reports it: the path it is at and its message
Violation(path, message) == [path |-> path, message |-> message]

Has(data, k) == k \in DOMAIN data

When(cond, violation) == IF cond THEN <<violation>> ELSE <<>>

\* .email(): the sample strings yup's e-mail pattern matches
MatchesEmail(s) == s \in {"jay@example.com"}

\* phoneRegExp: the sample strings /^(\+0?1\s)?\(?\d{3}\)?[\s.-]\d{3}[\s.-]\d{4}$/ matches
\* ("5555551234" has no separators and does not match)
MatchesPhone(s) == s \in {"(555) 555-1234", "555-555-1234"}

\* character classes of the sample passwords, as .password() counts them
Lowercase(s) == CASE s = "password" -> 8 [] s = "Passw0rd!" -> 6 [] OTHER -> 0
Uppercase(s) == CASE s = "Passw0rd!" -> 1 [] OTHER -> 0
Numbers(s) == CASE s = "Passw0rd!" -> 1 [] OTHER -> 0
Symbols(s) == CASE s = "Passw0rd!" -> 1 [] OTHER -> 0

\* fullName: string().nullable().label('Full Name').required().min(3).max(40)
\* an undefined value fails the presence check and no further test runs
FullNameViolations(data) ==
    IF ~Has(data, "fullName")
    THEN <<Violation("fullName", "Full Name is a required field")>>
    ELSE LET v == data["fullName"] IN
         When(Len(v) = 0, Violation("fullName", "Full Name is a required field"))
         \o When(Len(v) < FullNameMin,
                 Violation("fullName", "Full Name must be at least 3 characters"))
         \o When(Len(v) > FullNameMax,
                 Violation("fullName", "Full Name must be at most 40 characters"))

\* email: string().nullable().label('Email Address').required().email('Invalid Email Address')
\* (.email() skips the empty string)
EmailViolations(data) ==
    IF ~Has(data, "email")
    THEN <<Violation("email", "Email Address is a required field")>>
    ELSE LET v == data["email"] IN
         When(Len(v) = 0, Violation("email", "Email Address is a required field"))
         \o When(Len(v) > 0 /\ ~MatchesEmail(v),
                 Violation("email", "Invalid Email Address"))

\* phone: string().nullable().label('Mobile Phone').required().matches(phoneRegExp, ...)
PhoneViolations(data) ==
    IF ~Has(data, "phone")
    THEN <<Violation("phone", "Mobile Phone is a required field")>>
    ELSE LET v == data["phone"] IN
         When(Len(v) = 0, Violation("phone", "Mobile Phone is a required field"))
         \o When(~MatchesPhone(v), Violation("phone", "Invalid Phone Number"))

\* password: string().label('Password').password().required()
PasswordViolations(data) ==
    IF ~Has(data, "password")
    THEN <<Violation("password", "Password is a required field")>>
    ELSE LET v == data["password"] IN
         When(Len(v) < PasswordMin,
              Violation("password", "Password must be at least 8 characters"))
         \o When(Lowercase(v) < 1,
                 Violation("password", "Password must contain at least 1 lowercase letter"))
         \o When(Uppercase(v) < 1,
                 Violation("password", "Password must contain at least 1 uppercase letter"))
         \o When(Numbers(v) < 1,
                 Violation("password", "Password must contain at least 1 number"))
         \o When(Symbols(v) < 1,
                 Violation("password", "Password must contain at least 1 symbol"))
         \o When(Len(v) = 0, Violation("password", "Password is a required field"))

\* path of element i (0-based in the source) of the favTeams array
ElementPath(i) ==
    CASE i = 1 -> "favTeams[0]" [] i = 2 -> "favTeams[1]" [] i = 3 -> "favTeams[2]"
      [] i = 4 -> "favTeams[3]" [] i = 5 -> "favTeams[4]" [] OTHER -> "favTeams[5]"

\* .of(yup.string().oneOf(favTeams, 'Invalid team selected')): one violation per
\* element outside the enumerated keys, at the element's path
RECURSIVE ElementViolations(_, _)
ElementViolations(arr, i) ==
    IF i > Len(arr) THEN <<>>
    ELSE When(arr[i] \notin favTeams, Violation(ElementPath(i), "Invalid team selected"))
         \o ElementViolations(arr, i + 1)

\* a schema whose favTeams rule lacks .max(3)
FavTeamsViolationsNoMax(data) ==
    IF ~Has(data, "favTeams")
    THEN <<Violation("favTeams", "Favorite Teams is a required field")>>
    ELSE LET v == data["favTeams"] IN
         ElementViolations(v, 1)
         \o When(Len(v) < FavTeamsMin,
                 Violation("favTeams", "Favorite Teams field must have at least 1 items"))

\* favTeams: array().label('Favorite Teams').required().min(1).max(3).of(...)
\* the element violations precede the array's own
FavTeamsViolations(data) ==
    IF ~Has(data, "favTeams")
    THEN <<Violation("favTeams", "Favorite Teams is a required field")>>
    ELSE LET v == data["favTeams"] IN
         ElementViolations(v, 1)
         \o When(Len(v) < FavTeamsMin,
                 Violation("favTeams", "Favorite Teams field must have at least 1 items"))
         \o When(Len(v) > FavTeamsMax,
                 Violation("favTeams",
                           "Favorite Teams field must have less than or equal to 3 items"))

\* acceptTerms: boolean().label('Accept Terms').required().oneOf([true], ...)
AcceptTermsViolations(data) ==
    IF ~Has(data, "acceptTerms")
    THEN <<Violation("acceptTerms", "Accept Terms is a required field")>>
    ELSE When(data["acceptTerms"] # TRUE,
              Violation("acceptTerms", "You must accept the terms and conditions"))

FieldViolations(f, data) ==
    CASE f = "fullName" -> FullNameViolations(data)
      [] f = "email" -> EmailViolations(data)
      [] f = "phone" -> PhoneViolations(data)
      [] f = "password" -> PasswordViolations(data)
      [] f = "favTeams" -> FavTeamsViolations(data)
      [] f = "acceptTerms" -> AcceptTermsViolations(data)

\* the violations of fields order[i..], in that order
RECURSIVE ViolationsFrom(_, _, _)
ViolationsFrom(order, i, data) ==
    IF i > Len(order) THEN <<>>
    ELSE FieldViolations(order[i], data) \o ViolationsFrom(order, i + 1, data)

\* the schema check of an object with abortEarly: false: every violation of every
\* field, sorted by the declaration order of the fields
ObjectViolations(data) == ViolationsFrom(Fields, 1, data)

\* a JavaScript value handed to the schema: an object with its own keys, or null
Object(data) == [kind |-> "object", data |-> data]

\* formSchema.validate(value, { abortEarly: false }): yup.object() rejects a value
\* that is no object with one violation at the root path
SchemaViolations(value) ==
    IF value.kind = "object"
    THEN ObjectViolations(value.data)
    ELSE <<Violation("", "this cannot be null")>>

\* a Yup.ValidationError: inner holds the violations, errors their messages
ValidationError(violations) ==
    [inner |-> violations,
     errors |-> [i \in 1..Len(violations) |-> violations[i].message]]

----------------------------------------------------------------------------
(* hooks/useForm.tsx *)

\* schema.validate(data, { abortEarly: false }) as the awaiting caller sees it settle:
\* resolved, rejected with a Yup.ValidationError, or rejected with anything else
\* (fault: the schema check itself failed)
SchemaValidate(value, fault) ==
    IF fault # "none"
    THEN [kind |-> "fault", err |-> ValidationError(<<>>)]
    ELSE IF SchemaViolations(value) = <<>>
         THEN [kind |-> "resolved", err |-> ValidationError(<<>>)]
         ELSE [kind |-> "validationError", err |-> ValidationError(SchemaViolations(value))]

\* the path of the aggregate error (err.path), which is empty for an object schema
ErrFieldOfAggregate(err) == ""

\* const errField = err?.inner[0]?.path || ''
ErrField(err) == IF Len(err.inner) > 0 THEN err.inner[1].path ELSE ""

\* a message taken from the last violation instead of the first
ErrMessLast(err) == err.errors[Len(err.errors)]

\* const errMess = err.errors[0]
ErrMess(err) == err.errors[1]

\* an update that drops the spread of the previous state
MergeReplacing(obj, name, value) == [k \in {name} |-> value]

\* ({ ...prevState, [name]: value })
Merge(obj, name, value) ==
    [k \in DOMAIN obj \cup {name} |-> IF k = name THEN value ELSE obj[k]]

\* const initialErrors = {}; for (const k in initialFormData) initialErrors[k] = ''
InitialErrors(initial) == [k \in DOMAIN initial |-> ""]

NonBlank(errs) == {k \in DOMAIN errs : errs[k] # ""}

\* the fields of data that violate the schema
ViolatedFields(data) == {f \in FieldSet : FieldViolations(f, data) # <<>>}

\* pages/index.tsx: the initialFormData the page passes to useForm
PageInitialFormData ==
    [k \in {"fullName", "email", "phone", "password"} |-> ""]

\* an initial state with every key of I_FormData
FullInitialFormData ==
    [k \in FieldSet |-> CASE k = "favTeams" -> <<>>
                          [] k = "acceptTerms" -> FALSE
                          [] OTHER -> ""]

InitialChoices == {PageInitialFormData, FullInitialFormData}

\* components/TheForm.tsx: the names under which the view displays errors[name]
Displayed == {"fullName", "email", "phone", "password", "favTeams", "acceptTerms"}

\* the text inputs of TheForm whose onChange is handleInputChange
TextNames == {"fullName", "email", "password"}

TextSamples(name) ==
    CASE name = "fullName" -> {"", "Jay Simons"}
      [] name = "email" -> {"", "jay@example.com"}
      [] name = "phone" -> {"", "(555) 555-1234"}
      [] name = "password" -> {"", "Passw0rd!"}

\* what the multi-select of TheForm can hold: options are the keys of E_FavTeams
SelectSamples == {<<>>, <<"arsenal">>}

NoCall == [op |-> "none", result |-> "none", valid |-> FALSE, fault |-> FALSE,
           multi |-> FALSE, hadErr |-> FALSE, overlapped |-> FALSE, changed |-> FALSE,
           direct |-> FALSE, repeat |-> FALSE, stale |-> FALSE]

CtlInit ==
    /\ initialFormData \in InitialChoices
    /\ formData = initialFormData
    /\ errors = InitialErrors(initialFormData)
    /\ inflight = <<>>
    /\ last = NoCall

\* handleInputChange(event): setFormData(prev => ({ ...prev, [name]: value }))
HandleInputChange(name, value) ==
    /\ formData' = Merge(formData, name, value)
    /\ last' = [NoCall EXCEPT !.op = "handleInputChange"]
    /\ UNCHANGED <<initialFormData, errors, inflight, schemaVars, handlerVars, pageVars>>

\* TheForm's handlePhoneChange(event): handleInputChange(event) with the value typed
\* into the masked phone input; the digits-only formattedValue it then writes to
\* event.target.value stays in the DOM element and reaches no state of the hook
HandlePhoneChange(value) == HandleInputChange("phone", value)

\* handleCheckboxChange(event): the same merge, with the checkbox's checked flag
HandleCheckboxChange(name, checked) ==
    /\ formData' = Merge(formData, name, checked)
    /\ last' = [NoCall EXCEPT !.op = "handleCheckboxChange"]
    /\ UNCHANGED <<initialFormData, errors, inflight, schemaVars, handlerVars, pageVars>>

\* handleMultiSelectChange(event): the same merge, with the selected options
HandleMultiSelectChange(name, selected) ==
    /\ formData' = Merge(formData, name, selected)
    /\ last' = [NoCall EXCEPT !.op = "handleMultiSelectChange"]
    /\ UNCHANGED <<initialFormData, errors, inflight, schemaVars, handlerVars, pageVars>>

\* the call of validateForm, up to its await: setErrors(initialErrors), then
\* schema.validate(formData, ...) is started on the formData of this render.
\* What the promise will settle to is fixed by the data handed over; the record
\* keeps what the continuation reads of it (kind, errField, errMess) and, for the
\* properties, the circumstances of the call: whether the data satisfied the
\* schema, whether another call was in flight beside it and, for a call that
\* runs alone, whether several fields were violated, whether a message was
\* displayed at the call and whether the call comes right after a validateForm
\* that completed with no operation between its call and its return and
\* returned true (prev is the operation completed before the call).
Pending(data, errs, others, fault, prev) ==
    LET r == SchemaValidate(Object(data), fault) IN
    [kind |-> r.kind,
     errField |-> IF r.kind = "validationError" THEN ErrField(r.err) ELSE "",
     errMess |-> IF r.kind = "validationError" THEN ErrMess(r.err) ELSE "",
     valid |-> ViolatedFields(data) = {},
     multi |-> others = <<>> /\ Cardinality(ViolatedFields(data)) > 1,
     hadErr |-> others = <<>> /\ NonBlank(errs) # {},
     repeat |-> /\ others = <<>>
                /\ prev.op = "validateForm.return"
                /\ prev.result = "true"
                /\ prev.direct
                /\ ~prev.overlapped,
     overlapped |-> others # <<>>]

\* a suspended call that another call joins
Overlapped(p) ==
    [p EXCEPT !.overlapped = TRUE, !.multi = FALSE, !.hadErr = FALSE, !.repeat = FALSE]

\* a validateForm that does not reset the errors object
ClearErrorsSkipped(initial, errs) == errs

\* setErrors(initialErrors) at the head of validateForm
ClearErrors(initial, errs) == InitialErrors(initial)

\* validateForm(), from its call to its await
ValidateFormBegin(fault) ==
    /\ Len(inflight) < MaxInFlight
    /\ errors' = ClearErrors(initialFormData, errors)
    /\ inflight' = Append([i \in 1..Len(inflight) |-> Overlapped(inflight[i])],
                          Pending(formData, errors, inflight, fault, last))
    /\ last' = [NoCall EXCEPT !.op = "validateForm.call"]
    /\ UNCHANGED <<initialFormData, formData>>

\* validateForm() called on its own
ValidateFormCall(fault) ==
    /\ ValidateFormBegin(fault)
    /\ UNCHANGED <<schemaVars, handlerVars, pageVars>>

Remove(seq, i) == [j \in 1..(Len(seq) - 1) |-> IF j < i THEN seq[j] ELSE seq[j + 1]]

\* what validateForm returns to its caller once the promise has settled
ValidateResult(p) == IF p.kind = "resolved" THEN "true" ELSE "false"

\* a catch block that records nothing
ValidateErrorsDropped(p, errs) == errs

\* a setErrors that runs whatever was caught, and after a resolved check too
ValidateErrorsAlways(p, errs) == Merge(errs, p.errField, p.errMess)

\* the ErrorState update of the catch block
ValidateErrors(p, errs) ==
    IF p.kind = "validationError" THEN Merge(errs, p.errField, p.errMess) ELSE errs

\* the continuation of validateForm after the await
ValidateFormEnd(i) ==
    /\ i \in 1..Len(inflight)
    /\ LET p == inflight[i] IN
       /\ errors' = ValidateErrors(p, errors)
       /\ last' = [op |-> "validateForm.return", result |-> ValidateResult(p),
                   valid |-> p.valid, fault |-> p.kind = "fault", multi |-> p.multi,
                   hadErr |-> p.hadErr, overlapped |-> p.overlapped, changed |-> FALSE,
                   direct |-> last.op = "validateForm.call",
                   repeat |-> p.repeat /\ last.op = "validateForm.call",
                   stale |-> last.op = "resetForm" /\ last.changed]
    /\ inflight' = Remove(inflight, i)
    /\ UNCHANGED <<initialFormData, formData>>

\* the completion of a validateForm() that was called on its own
ValidateFormReturn(i) ==
    /\ ValidateFormEnd(i)
    /\ UNCHANGED <<schemaVars, handlerVars, pageVars>>

\* a resetForm that leaves the values in place
ResetFormDataKept(initial, data) == data

\* resetForm(): setFormData(initialFormData); setErrors(initialErrors)
ResetFormData(initial, data) == initial

\* a resetForm that leaves the errors in place
ResetErrorsKept(initial, errs) == errs

ResetErrors(initial, errs) == InitialErrors(initial)

ResetForm ==
    /\ formData' = ResetFormData(initialFormData, formData)
    /\ errors' = ResetErrors(initialFormData, errors)
    /\ last' = [NoCall EXCEPT !.op = "resetForm",
                              !.hadErr = NonBlank(errors) # {},
                              !.changed = formData # initialFormData]
    /\ UNCHANGED <<initialFormData, inflight, schemaVars, handlerVars, pageVars>>

SchemaIdle == candidate = <<>> /\ verdict = <<>>
HandlerIdle == request = <<>> /\ hstate = "Idle" /\ response = <<>>

\* JSON null, as a parsed value
JsonNull == [kind |-> "null", data |-> <<>>, keys |-> <<>>]

\* pages/index.tsx: the state of Home at its first render
PageInit ==
    /\ isLoading = FALSE
    /\ disableClientValidation = FALSE
    /\ serverResponse = JsonNull
    /\ responseCode = 0
    /\ submits = <<>>

Init == CtlInit /\ SchemaIdle /\ HandlerIdle /\ PageInit

Next ==
    \/ \E name \in TextNames : \E value \in TextSamples(name) :
          HandleInputChange(name, value)
    \/ \E value \in TextSamples("phone") : HandlePhoneChange(value)
    \/ \E checked \in BOOLEAN : HandleCheckboxChange("acceptTerms", checked)
    \/ \E selected \in SelectSamples : HandleMultiSelectChange("favTeams", selected)
    \/ \E fault \in {"none", "internal"} : ValidateFormCall(fault)
    \/ \E i \in 1..MaxInFlight : ValidateFormReturn(i)
    \/ ResetForm

Spec == Init /\ [][Next]_vars

----------------------------------------------------------------------------
(* The schema check applied to candidate payloads *)

\* a key of a candidate: absent (v is then not read), or present with value v
Options(unread, values) ==
    {[has |-> FALSE, v |-> unread]} \cup {[has |-> TRUE, v |-> x] : x \in values}

\* the sequences over S of length 0..n
RECURSIVE SeqsUpTo(_, _)
SeqsUpTo(S, n) ==
    IF n = 0 THEN {<<>>}
    ELSE LET shorter == SeqsUpTo(S, n - 1) IN
         shorter \cup {Append(q, x) : q \in {r \in shorter : Len(r) = n - 1}, x \in S}

\* a key of E_FavTeams, and the display name of a team (a value of the enum, no key)
TeamSamples == {"arsenal", "Arsenal"}

LongName == "Jay Simons Jay Simons Jay Simons Jay Simons"

CandidateOptions(f) ==
    CASE f = "fullName" -> Options("", {"", "Al", "Jay Simons", LongName})
      [] f = "email" -> Options("", {"", "jay@", "jay@example.com"})
      [] f = "phone" -> Options("", {"", "5555551234", "(555) 555-1234"})
      [] f = "password" -> Options("", {"", "password", "Passw0rd!"})
      [] f = "favTeams" -> Options(<<>>, SeqsUpTo(TeamSamples, MaxTeams))
      [] f = "acceptTerms" -> Options(FALSE, BOOLEAN)

\* the object with the keys the options have, in the order of Fields
Build(options) ==
    [k \in {Fields[i] : i \in {j \in 1..Len(Fields) : options[j].has}} |->
        options[CHOOSE i \in 1..Len(Fields) : Fields[i] = k].v]

Candidates ==
    {Build(<<n, e, p, w, t, a>>) :
        n \in CandidateOptions("fullName"), e \in CandidateOptions("email"),
        p \in CandidateOptions("phone"), w \in CandidateOptions("password"),
        t \in CandidateOptions("favTeams"), a \in CandidateOptions("acceptTerms")}

\* what validateForm and the handler read of a settled schema check
Surfaced(r) ==
    [kind |-> r.kind,
     errField |-> IF r.kind = "validationError" THEN ErrField(r.err) ELSE "",
     errMess |-> IF r.kind = "validationError" THEN ErrMess(r.err) ELSE ""]

Unchecked == [kind |-> "unchecked", errField |-> "", errMess |-> ""]

SchemaInit ==
    /\ candidate \in Candidates
    /\ verdict = Unchecked

\* await schema.validate(candidate, { abortEarly: false }), and the catch block's
\* choice of errField and errMess
SchemaCheck ==
    /\ verdict = Unchecked
    /\ verdict' = Surfaced(SchemaValidate(Object(candidate), "none"))
    /\ UNCHANGED <<candidate, ctlVars, handlerVars, pageVars>>

SchemaNext == SchemaCheck

CtlIdle ==
    /\ initialFormData = PageInitialFormData
    /\ formData = initialFormData
    /\ errors = InitialErrors(initialFormData)
    /\ inflight = <<>>
    /\ last = NoCall

SchemaSpecInit == CtlIdle /\ SchemaInit /\ HandlerIdle /\ PageInit

SpecSchema == SchemaSpecInit /\ [][SchemaNext]_vars

----------------------------------------------------------------------------
(* pages/api/form.ts *)

\* A JSON text: malformed, the literal null, or an object written as a list of
\* <<key, value>> members (a key may be written twice).
JsonObjectText(members) == [kind |-> "object", members |-> members]
JsonNullText == [kind |-> "null", members |-> <<>>]
MalformedText == [kind |-> "malformed", members |-> <<>>]

\* JSON.parse of an object text: a key written twice keeps its last value
RECURSIVE ParseMembers(_, _, _)
ParseMembers(members, i, data) ==
    IF i > Len(members) THEN data
    ELSE ParseMembers(members, i + 1, Merge(data, members[i][1], members[i][2]))

\* the keys of an object text in the order of their first occurrence
RECURSIVE KeyOrder(_, _, _)
KeyOrder(members, i, keys) ==
    IF i > Len(members) THEN keys
    ELSE KeyOrder(members, i + 1,
                  IF members[i][1] \in {keys[j] : j \in 1..Len(keys)}
                  THEN keys ELSE Append(keys, members[i][1]))

\* request.json() / JSON.parse: the value of a well-formed text, with the order
\* of its own keys
JsonParse(text) ==
    IF text.kind = "object"
    THEN [kind |-> "object", data |-> ParseMembers(text.members, 1, <<>>),
          keys |-> KeyOrder(text.members, 1, <<>>)]
    ELSE JsonNull

\* a stringify that writes only the keys the schema declares
JsonStringifyDeclared(value) ==
    IF value.kind = "object"
    THEN JsonObjectText(
            LET kept == SelectSeq(value.keys, LAMBDA k : k \in FieldSet) IN
            [i \in 1..Len(kept) |-> <<kept[i], value.data[kept[i]]>>])
    ELSE JsonNullText

\* JSON.stringify(value): every own key once, in key order
JsonStringify(value) ==
    IF value.kind = "object"
    THEN JsonObjectText([i \in 1..Len(value.keys) |->
                            <<value.keys[i], value.data[value.keys[i]]>>])
    ELSE JsonNullText

\* JSON.stringify({ errField, errMess })
ErrorText(errField, errMess) ==
    JsonObjectText(<<<<"errField", errField>>, <<"errMess", errMess>>>>)

NoResponse == [status |-> 0, contentType |-> "", body |-> MalformedText, message |-> ""]

\* new Response(JSON.stringify(formData), { headers: { 'Content-Type': 'application/json' } })
EchoResponse(value) ==
    [status |-> 200, contentType |-> "application/json",
     body |-> JsonStringify(value), message |-> ""]

\* the outer catch: new Response(err.message, { status: 500 }) for an Error, and
\* nothing returned for any other thrown value
CatchResponse(thrown) ==
    IF thrown.isError
    THEN [status |-> 500, contentType |-> "text/plain;charset=UTF-8",
          body |-> thrown.json, message |-> thrown.message]
    ELSE NoResponse

\* the SyntaxError of request.json() on a malformed body
SyntaxError == [isError |-> TRUE, json |-> MalformedText, message |-> "SyntaxError"]

\* throw new Error(JSON.stringify({ errField, errMess }))
RethrownViolation(errField, errMess) ==
    [isError |-> TRUE, json |-> ErrorText(errField, errMess), message |-> ""]

NoRequest == [body |-> MalformedText, formData |-> JsonParse(JsonNullText), fault |-> "none"]

\* the members of the body a client posts: the candidate's keys in the order of
\* Fields, optionally after a first writing of fullName that the second overrides,
\* optionally followed by a key the schema does not declare
BodyOptions(f) ==
    CASE f = "fullName" -> Options("", {"", "Jay Simons"})
      [] f = "email" -> Options("", {"jay@", "jay@example.com"})
      [] f = "phone" -> Options("", {"(555) 555-1234"})
      [] f = "password" -> Options("", {"Passw0rd!"})
      [] f = "favTeams" -> Options(<<>>, {<<>>, <<"arsenal">>, <<"Arsenal">>,
                                           <<"arsenal", "chelsea", "everton", "fulham">>})
      [] f = "acceptTerms" -> Options(FALSE, BOOLEAN)

BodyPayloads ==
    {Build(<<n, e, p, w, t, a>>) :
        n \in BodyOptions("fullName"), e \in BodyOptions("email"),
        p \in BodyOptions("phone"), w \in BodyOptions("password"),
        t \in BodyOptions("favTeams"), a \in BodyOptions("acceptTerms")}

MembersOf(data) ==
    LET present == SelectSeq(Fields, LAMBDA k : k \in DOMAIN data) IN
    [i \in 1..Len(present) |-> <<present[i], data[present[i]]>>]

Bodies ==
    {MalformedText, JsonNullText}
    \cup {JsonObjectText(MembersOf(d)) : d \in BodyPayloads}
    \cup {JsonObjectText(<<<<"fullName", "Al">>>> \o MembersOf(d)) : d \in BodyPayloads}
    \cup {JsonObjectText(MembersOf(d) \o <<<<"nickname", "jay">>>>) : d \in BodyPayloads}

\* Received: a request arrives
Receive(body) ==
    /\ hstate = "Idle"
    /\ request' = [NoRequest EXCEPT !.body = body]
    /\ hstate' = "Received"
    /\ response' = NoResponse
    /\ UNCHANGED <<ctlVars, schemaVars, pageVars>>

\* const formData = await request.json(): a malformed body throws to the outer catch
ReadJson ==
    /\ hstate = "Received"
    /\ IF request.body.kind = "malformed"
       THEN /\ response' = CatchResponse(SyntaxError)
            /\ hstate' = IF response'.status = 0 THEN "Unanswered" ELSE "Rejected"
            /\ UNCHANGED request
       ELSE /\ request' = [request EXCEPT !.formData = JsonParse(request.body)]
            /\ hstate' = "Validating"
            /\ UNCHANGED response
    /\ UNCHANGED <<ctlVars, schemaVars, pageVars>>

\* the response once formSchema.validate has settled: a ValidationError is
\* rethrown as an Error for the outer catch; anything else the inner catch
\* caught is dropped and the handler goes on to the echo
SettledResponse(value, r) ==
    IF r.kind = "validationError"
    THEN CatchResponse(RethrownViolation(ErrField(r.err), ErrMess(r.err)))
    ELSE EchoResponse(value)

\* the schema of the first four fields only, as in the copy of formSchema that
\* declares no favTeams and no acceptTerms
LegacySchemaValidate(value, fault) ==
    LET violations == IF value.kind = "object"
                      THEN ViolationsFrom(SubSeq(Fields, 1, 4), 1, value.data)
                      ELSE SchemaViolations(value)
    IN  IF fault # "none"
        THEN [kind |-> "fault", err |-> ValidationError(<<>>)]
        ELSE IF violations = <<>>
             THEN [kind |-> "resolved", err |-> ValidationError(<<>>)]
             ELSE [kind |-> "validationError", err |-> ValidationError(violations)]

\* import formSchema from "@/schema/formSchema";
\* await formSchema.validate(formData, { abortEarly: false }): the schema the page
\* passes to useForm
HandlerSchemaValidate(value, fault) == SchemaValidate(value, fault)

\* Validating -> Accepted | Rejected
Settle(fault) ==
    /\ hstate = "Validating"
    /\ request' = [request EXCEPT !.fault = fault]
    /\ response' = SettledResponse(request.formData,
                       HandlerSchemaValidate([kind |-> request.formData.kind,
                                              data |-> request.formData.data], fault))
    /\ hstate' = CASE response'.status = 200 -> "Accepted"
                   [] response'.status = 0 -> "Unanswered"
                   [] OTHER -> "Rejected"
    /\ UNCHANGED <<ctlVars, schemaVars, pageVars>>

\* the handler keeps nothing between requests
Finish ==
    /\ hstate \in {"Accepted", "Rejected", "Unanswered"}
    /\ request' = <<>>
    /\ hstate' = "Idle"
    /\ response' = <<>>
    /\ UNCHANGED <<ctlVars, schemaVars, pageVars>>

\* what the schema check can throw besides a ValidationError: an Error, or a
\* value that is no Error
Faults == {"none", "error", "nonError"}

HandlerNext ==
    \/ \E body \in Bodies : Receive(body)
    \/ ReadJson
    \/ \E fault \in Faults : Settle(fault)
    \/ Finish

HandlerInit == CtlIdle /\ SchemaIdle /\ HandlerIdle /\ PageInit

SpecHandler == HandlerInit /\ [][HandlerNext]_vars

----------------------------------------------------------------------------
(* The controller and the handler given the same payload *)

\* pages/index.tsx: body: JSON.stringify(formData), the keys written in the order
\* of the fields
PostBody(data) == JsonObjectText(MembersOf(data))

\* useForm mounted on a payload: FormState equal to the payload
SharedInit ==
    /\ initialFormData \in BodyPayloads
    /\ formData = initialFormData
    /\ errors = InitialErrors(initialFormData)
    /\ inflight = <<>>
    /\ last = NoCall
    /\ SchemaIdle
    /\ HandlerIdle
    /\ PageInit

\* the FormState is posted to /api/form
PostFormData == Receive(PostBody(formData))

SharedNext ==
    \/ \E fault \in {"none", "internal"} : ValidateFormCall(fault)
    \/ \E i \in 1..MaxInFlight : ValidateFormReturn(i)
    \/ PostFormData
    \/ ReadJson
    \/ \E fault \in Faults : Settle(fault)
    \/ Finish

SpecShared == SharedInit /\ [][SharedNext]_vars

----------------------------------------------------------------------------
(* pages/index.tsx *)

\* handler(request) as the client sees it: the Response for a body, the schema
\* check ending as fault says
HandlerResponse(body, fault) ==
    IF body.kind = "malformed"
    THEN CatchResponse(SyntaxError)
    ELSE LET formData_ == JsonParse(body) IN
         SettledResponse(formData_,
             HandlerSchemaValidate([kind |-> formData_.kind, data |-> formData_.data],
                                   fault))

\* what fetch resolves to: the handler's Response or, when the handler returned
\* none, the error answer of the runtime, whose body is no JSON
Delivered(resp) == IF resp.status = 0 THEN [resp EXCEPT !.status = 500] ELSE resp

\* a handleSubmit call suspended on an await: where it waits, the formData it read
\* at line 25, whether it called validateForm, and the body of the Response
Flow(pc, data, checked) ==
    [pc |-> pc, formData |-> data, checked |-> checked, body |-> MalformedText]

\* the Submit and Reset buttons, the switch and the form are rendered while
\* serverResponse is null
Shown == serverResponse.kind = "null"

\* useForm's render(): while isLoading a cover lies over the form
Interactive == Shown /\ ~isLoading

\* the handleSubmit call that awaits the i-th suspended validateForm
FlowOf(i) ==
    CHOOSE j \in 1..Len(submits) :
        /\ submits[j].pc = "validating"
        /\ Cardinality({k \in 1..j : submits[k].pc = "validating"}) = i

\* the handleSubmit calls whose POST has been sent
Posted == {j \in 1..Len(submits) : submits[j].pc \in {"fetching", "reading"}}

\* a handleSubmit that goes on whatever validateForm returned
ProceedsAlways(result) == TRUE

\* if (! await validateForm()) return;
Proceeds(result) == result = "true"

\* handleSubmit(e), up to its first await: await validateForm(), or with client
\* validation disabled setIsLoading(true) and await fetch(...)
HandleSubmit(fault) ==
    /\ Shown
    /\ Len(submits) < MaxSubmits
    /\ IF disableClientValidation
       THEN /\ fault = "none"
            /\ isLoading' = TRUE
            /\ submits' = Append(submits, Flow("fetching", formData, FALSE))
            /\ UNCHANGED ctlVars
       ELSE /\ ValidateFormBegin(fault)
            /\ submits' = Append(submits, Flow("validating", formData, TRUE))
            /\ UNCHANGED isLoading
    /\ UNCHANGED <<disableClientValidation, serverResponse, responseCode,
                   schemaVars, handlerVars>>

\* validateForm returns to handleSubmit: return, or setIsLoading(true) and
\* await fetch(...)
SubmitValidated(i) ==
    /\ i \in 1..Len(inflight)
    /\ ValidateFormEnd(i)
    /\ IF Proceeds(ValidateResult(inflight[i]))
       THEN /\ isLoading' = TRUE
            /\ submits' = [submits EXCEPT ![FlowOf(i)].pc = "fetching"]
       ELSE /\ isLoading' = isLoading
            /\ submits' = Remove(submits, FlowOf(i))
    /\ UNCHANGED <<disableClientValidation, serverResponse, responseCode,
                   schemaVars, handlerVars>>

\* fetch settles: it rejects (net = "down") and handleSubmit ends with it, or it
\* resolves and handleSubmit goes on to setResponseCode(result.status) and
\* await result.json()
FetchSettled(j, net, fault) ==
    /\ j \in 1..Len(submits)
    /\ submits[j].pc = "fetching"
    /\ IF net = "down"
       THEN /\ fault = "none"
            /\ submits' = Remove(submits, j)
            /\ UNCHANGED responseCode
       ELSE LET resp == Delivered(HandlerResponse(PostBody(submits[j].formData), fault))
            IN  /\ responseCode' = resp.status
                /\ submits' = [submits EXCEPT ![j].pc = "reading", ![j].body = resp.body]
    /\ UNCHANGED <<isLoading, disableClientValidation, serverResponse,
                   ctlVars, schemaVars, handlerVars>>

\* result.json() settles: it rejects on a body that is no JSON and handleSubmit
\* ends with it, or handleSubmit goes on to setServerResponse(...) and
\* setIsLoading(false)
BodyRead(j) ==
    /\ j \in 1..Len(submits)
    /\ submits[j].pc = "reading"
    /\ IF submits[j].body.kind = "malformed"
       THEN UNCHANGED <<serverResponse, isLoading>>
       ELSE /\ serverResponse' = JsonParse(submits[j].body)
            /\ isLoading' = FALSE
    /\ submits' = Remove(submits, j)
    /\ UNCHANGED <<disableClientValidation, responseCode, ctlVars, schemaVars, handlerVars>>

\* handleDisableClientValidation(): setDisableClientValidation(old => !old)
HandleDisableClientValidation ==
    /\ Shown
    /\ disableClientValidation' = ~disableClientValidation
    /\ UNCHANGED <<isLoading, serverResponse, responseCode, submits,
                   ctlVars, schemaVars, handlerVars>>

\* the Try Again button: setServerResponse(null)
TryAgain ==
    /\ ~Shown
    /\ serverResponse' = JsonNull
    /\ UNCHANGED <<isLoading, disableClientValidation, responseCode, submits,
                   ctlVars, schemaVars, handlerVars>>

\* the fields above field name in the form
Above(name) ==
    {Fields[i] : i \in 1..((CHOOSE k \in 1..Len(Fields) : Fields[k] = name) - 1)}

\* The user fills in the form from its first field to its last: a field is
\* edited once every field above it holds a value.
Filled(f) ==
    /\ f \in DOMAIN formData
    /\ CASE f = "favTeams" -> formData[f] # <<>>
         [] f = "acceptTerms" -> TRUE
         [] OTHER -> formData[f] # ""

Reached(name) == \A f \in Above(name) : Filled(f)

\* the inputs of the rendered form
TypeText(name, value) ==
    Interactive /\ Reached(name) /\ HandleInputChange(name, value)
TypePhone(value) ==
    Interactive /\ Reached("phone") /\ HandlePhoneChange(value)
SelectTeams(selected) ==
    Interactive /\ Reached("favTeams") /\ HandleMultiSelectChange("favTeams", selected)
ToggleTerms(checked) ==
    Interactive /\ Reached("acceptTerms") /\ HandleCheckboxChange("acceptTerms", checked)

\* the Reset button: onClick={resetForm}
ClickReset == Shown /\ ResetForm

\* what the user types into the page's form
PageTextSamples(name) ==
    CASE name = "fullName" -> {"Jay Simons"}
      [] name = "email" -> {"jay@example.com"}
      [] name = "password" -> {"Passw0rd!"}

PageSpecInit == CtlIdle /\ SchemaIdle /\ HandlerIdle /\ PageInit

PageNext ==
    \/ \E name \in TextNames : \E value \in PageTextSamples(name) : TypeText(name, value)
    \/ TypePhone("(555) 555-1234")
    \/ ToggleTerms(TRUE)
    \/ SelectTeams(<<"arsenal">>)
    \/ ClickReset
    \/ HandleDisableClientValidation
    \/ \E fault \in {"none", "internal"} : HandleSubmit(fault)
    \/ \E i \in 1..MaxInFlight : SubmitValidated(i)
    \/ \E j \in 1..MaxSubmits : \E net \in {"up", "down"} : \E fault \in Faults :
          FetchSettled(j, net, fault)
    \/ \E j \in 1..MaxSubmits : BodyRead(j)
    \/ TryAgain

SpecPage == PageSpecInit /\ [][PageNext]_vars

----------------------------------------------------------------------------
(* Properties of the form controller, checked under Spec *)

AllBlank(errs) == \A k \in DOMAIN errs : errs[k] = ""

ChangePost(name, value) ==
    /\ DOMAIN formData' = DOMAIN formData \cup {name}
    /\ formData'[name] = value
    /\ \A k \in DOMAIN formData \ {name} : formData'[k] = formData[k]
    /\ errors' = errors

\* C1: whatever changes and validations came before, resetForm() leaves FormState
\* equal to the InitialFormState (same keys, same values) and ErrorState with the
\* keys of the InitialFormState, every entry the empty string.
C1_ResetRestoresInitial ==
    last.op = "resetForm" =>
        /\ formData = initialFormData
        /\ DOMAIN errors = DOMAIN initialFormData
        /\ AllBlank(errors)

\* a reset that had something to undo: the values had changed and a failed
\* validation had left a message
C1_Witness ==
    /\ last.op = "resetForm"
    /\ last.changed
    /\ last.hadErr
    /\ formData = initialFormData

\* C2: a validate() call on a FormState that satisfies the schema (the check itself
\* working, no other validate() call in flight beside it) returns true and leaves
\* every ErrorState entry blank, also when a message of an earlier failed
\* validation was displayed at the call.
C2_ValidPassesAndBlanks ==
    (/\ last.op = "validateForm.return"
     /\ last.valid
     /\ ~last.fault
     /\ ~last.overlapped)
    => (last.result = "true" /\ AllBlank(errors))

C2_Witness ==
    /\ last.op = "validateForm.return"
    /\ last.valid
    /\ ~last.fault
    /\ ~last.overlapped
    /\ last.hadErr
    /\ last.result = "true"

\* C3: a validate() call on a FormState that violates the schema (no other
\* validate() call in flight beside it) returns false and leaves exactly one
\* non-empty ErrorState entry, however many fields are violated and whatever
\* ErrorState held at the call.
C3_InvalidSetsExactlyOne ==
    (/\ last.op = "validateForm.return"
     /\ ~last.valid
     /\ ~last.fault
     /\ ~last.overlapped)
    => (last.result = "false" /\ Cardinality(NonBlank(errors)) = 1)

\* several fields violated, and a message already displayed at the call
C3_Witness ==
    /\ last.op = "validateForm.return"
    /\ ~last.valid
    /\ ~last.fault
    /\ ~last.overlapped
    /\ last.multi
    /\ last.hadErr
    /\ Cardinality(NonBlank(errors)) = 1

\* C9: validate() raises a fault to its caller exactly when the schema check fails
\* with something that is no validation violation.
C9_FaultPropagates ==
    last.op = "validateForm.return" => (last.result = "throw" <=> last.fault)

\* C10: a change handler called with field f and value v leaves FormState[f] = v,
\* every other FormState field as it was, and ErrorState as it was.
C10_ChangeMergesOneField ==
    [][/\ \A name \in TextNames : \A value \in TextSamples(name) :
             HandleInputChange(name, value) => ChangePost(name, value)
       /\ \A value \in TextSamples("phone") :
             HandlePhoneChange(value) => ChangePost("phone", value)
       /\ \A checked \in BOOLEAN :
             HandleCheckboxChange("acceptTerms", checked)
                => ChangePost("acceptTerms", checked)
       /\ \A selected \in SelectSamples :
             HandleMultiSelectChange("favTeams", selected)
                => ChangePost("favTeams", selected)]_vars

\* a text field changed while other fields hold values and a message is displayed
C10_Witness ==
    /\ last.op = "handleInputChange"
    /\ NonBlank(errors) # {}
    /\ \E k \in TextNames : formData[k] # ""
    /\ "favTeams" \in DOMAIN formData

----------------------------------------------------------------------------
(* Properties of the schema check, checked under SpecSchema *)

\* the first field, in declaration order, that data violates
EarliestViolated(data) ==
    Fields[CHOOSE i \in 1..Len(Fields) :
              /\ FieldViolations(Fields[i], data) # <<>>
              /\ \A j \in 1..(i - 1) : FieldViolations(Fields[j], data) = <<>>]

\* the field a path lies in: the path itself, or the array of an element path
TopField(path) ==
    IF path \in {ElementPath(i) : i \in 1..(MaxTeams + 1)} THEN "favTeams" ELSE path

SeqRange(seq) == {seq[i] : i \in 1..Len(seq)}

\* C4: the violation surfaced is one of the earliest violated field in the order
\* [fullName, email, phone, password, favTeams, acceptTerms], the surfaced name
\* and message are the path and message of one and the same violation, and for
\* the empty payload the field is fullName.
C4_FirstViolationInDeclarationOrder ==
    verdict.kind = "validationError" =>
        /\ TopField(verdict.errField) = EarliestViolated(candidate)
        /\ Violation(verdict.errField, verdict.errMess)
              \in SeqRange(FieldViolations(EarliestViolated(candidate), candidate))
        /\ (DOMAIN candidate = {} => verdict.errField = "fullName")

\* a payload that violates a later field in several ways and then acceptTerms
C4_Witness ==
    /\ verdict.kind = "validationError"
    /\ Cardinality(ViolatedFields(candidate)) > 1
    /\ Len(FieldViolations(EarliestViolated(candidate), candidate)) > 1
    /\ EarliestViolated(candidate) # "fullName"

C4_WitnessEmpty ==
    /\ verdict.kind = "validationError"
    /\ DOMAIN candidate = {}

OthersValid(data) == ViolatedFields(data) \subseteq {"favTeams"}

\* C5: with every other field valid, a favTeams array is accepted exactly when it
\* has 1 to 3 elements and each element is a key of the enumerated team set.
C5_FavTeamsAcceptedIffOneToThreeKeys ==
    (/\ verdict.kind # "unchecked"
     /\ OthersValid(candidate)
     /\ Has(candidate, "favTeams"))
    => (verdict.kind = "resolved"
        <=> /\ Len(candidate["favTeams"]) \in FavTeamsMin..FavTeamsMax
            /\ SeqRange(candidate["favTeams"]) \subseteq favTeams)

\* a rejected array of four keys
C5_Witness ==
    /\ verdict.kind = "validationError"
    /\ OthersValid(candidate)
    /\ Has(candidate, "favTeams")
    /\ Len(candidate["favTeams"]) = FavTeamsMax + 1
    /\ SeqRange(candidate["favTeams"]) \subseteq favTeams

----------------------------------------------------------------------------
(* Properties of the submission handler, checked under SpecHandler *)

Answered == hstate \in {"Accepted", "Rejected", "Unanswered"}

\* the value the posted body denotes
Payload == JsonParse(request.body)

PayloadViolations ==
    SchemaViolations([kind |-> Payload.kind, data |-> Payload.data])

\* C6: a JSON object payload that satisfies the schema is answered with status
\* 200, content type application/json and a body that denotes the payload
\* received: the same keys with the same values.
C6_ValidPayloadEchoed ==
    (/\ Answered
     /\ request.body.kind = "object"
     /\ PayloadViolations = <<>>)
    => /\ response.status = 200
       /\ response.contentType = "application/json"
       /\ response.body.kind = "object"
       /\ JsonParse(response.body).data = Payload.data
       /\ JsonParse(response.body).keys = Payload.keys

\* a valid payload with a key the schema does not declare
C6_Witness ==
    /\ hstate = "Accepted"
    /\ request.body.kind = "object"
    /\ PayloadViolations = <<>>
    /\ "nickname" \in DOMAIN Payload.data

\* C7, for object payloads and a schema check that runs to its end: a payload
\* that violates the schema is answered with status 500 and the JSON encoding of
\* {errField, errMess}, errField being the name of the first violated field in
\* declaration order.
C7_ViolationNamesFirstField ==
    (/\ Answered
     /\ request.body.kind = "object"
     /\ request.fault = "none"
     /\ PayloadViolations # <<>>)
    => /\ response.status = 500
       /\ \E m \in {PayloadViolations[i].message : i \in 1..Len(PayloadViolations)} :
             response.body = ErrorText(EarliestViolated(Payload.data), m)

\* C8: every request ends Accepted or Rejected, and a fault that is no violation
\* (a body that is no JSON, a schema check that throws something other than a
\* validation violation) ends Rejected with a failure status.
C8_FaultsAreRejected ==
    Answered =>
        /\ hstate \in {"Accepted", "Rejected"}
        /\ (request.body.kind = "malformed" \/ request.fault # "none")
              => (hstate = "Rejected" /\ response.status = 500)

----------------------------------------------------------------------------
(* Further properties of the form controller, checked under Spec *)

\* C11: in every state reached by change-handler, validate() and resetForm()
\* calls, the key set of FormState is the key set of the InitialFormState.
C11_KeySetFixed == DOMAIN formData = DOMAIN initialFormData

\* C12: a validate() call made right after a validate() call that returned true,
\* each completing before the next operation and the schema check itself
\* working, returns true as well, and neither the second call nor its
\* completion changes FormState or ErrorState.
C12_RepeatedValidateIsStable ==
    [][/\ (/\ last.op = "validateForm.return"
           /\ last.result = "true"
           /\ last.direct
           /\ ~last.overlapped
           /\ inflight = <<>>
           /\ ValidateFormCall("none"))
          => (formData' = formData /\ errors' = errors)
       /\ \A i \in 1..MaxInFlight :
             (/\ i \in 1..Len(inflight)
              /\ inflight[i].repeat
              /\ inflight[i].kind # "fault"
              /\ last.op = "validateForm.call"
              /\ ValidateFormReturn(i))
             => (/\ last'.result = "true"
                 /\ formData' = formData
                 /\ errors' = errors)]_vars

\* the second of two validate() calls in a row has returned true
C12_Witness ==
    /\ last.op = "validateForm.return"
    /\ last.repeat
    /\ last.result = "true"
    /\ AllBlank(errors)

\* C15: when resetForm() has run while a validate() call was in flight, the
\* completion of that call still applies its result: for a call whose data
\* violated the schema, FormState stays equal to the InitialFormState and
\* ErrorState holds the message produced for the values of the call.
C15_StaleResultApplied ==
    [][\A i \in 1..MaxInFlight :
          (/\ i \in 1..Len(inflight)
           /\ inflight[i].kind = "validationError"
           /\ last.op = "resetForm"
           /\ ValidateFormReturn(i))
          => (/\ formData' = initialFormData
              /\ inflight[i].errMess # ""
              /\ errors'[inflight[i].errField] = inflight[i].errMess
              /\ last'.result = "false")]_vars

\* the reset had values to undo, and the message of the call made before it is
\* displayed on the restored form
C15_Witness ==
    /\ last.op = "validateForm.return"
    /\ last.stale
    /\ ~last.valid
    /\ formData = initialFormData
    /\ NonBlank(errors) # {}

\* C16: every key under which ErrorState holds a non-empty message is a field
\* the schema declares and the view displays; none is the empty string or the
\* path of an array element.
C16_ErrorKeysAreFields == NonBlank(errors) \subseteq (FieldSet \cap Displayed)

\* a message stored for the favTeams array itself
C16_Witness ==
    /\ last.op = "validateForm.return"
    /\ "favTeams" \in NonBlank(errors)

----------------------------------------------------------------------------
(* Properties of the shared schema, checked under SpecShared *)

\* C13: for a payload and a FormState equal to it, schema checks that run to
\* their end: validate() returns true exactly when the handler answers 200, and
\* when both reject, the one message validate() stored is under the errField
\* and is the errMess of the handler's answer.
C13_SameSchemaBothSides ==
    (/\ last.op = "validateForm.return"
     /\ ~last.fault
     /\ ~last.overlapped
     /\ Answered
     /\ request.fault = "none")
    => /\ (last.result = "true" <=> response.status = 200)
       /\ last.result = "false"
             => \E k \in DOMAIN errors :
                   /\ NonBlank(errors) = {k}
                   /\ response.status = 500
                   /\ response.body = ErrorText(k, errors[k])

\* both sides reject a payload whose first violation is at an array element
C13_Witness ==
    /\ last.op = "validateForm.return"
    /\ ~last.fault
    /\ ~last.overlapped
    /\ hstate = "Rejected"
    /\ request.fault = "none"
    /\ "favTeams[0]" \in NonBlank(errors)

----------------------------------------------------------------------------
(* Properties of the page's submit flow, checked under SpecPage *)

\* C14: with client validation enabled the POST is sent only after validate()
\* has returned true, with the FormState value validate() checked as payload
\* (so every payload sent satisfies the schema); when validate() returns false
\* the flow ends, sends no request and leaves isLoading as it was.
C14_PostOnlyAfterValidation ==
    /\ [](\A j \in Posted :
             submits[j].checked => SchemaViolations(Object(submits[j].formData)) = <<>>)
    /\ [][/\ \A fault \in {"none", "internal"} :
               (~disableClientValidation /\ HandleSubmit(fault))
               => (/\ isLoading' = isLoading
                   /\ Cardinality(Posted') = Cardinality(Posted)
                   /\ submits'[Len(submits')] = Flow("validating", formData, TRUE))
           /\ \A i \in 1..MaxInFlight :
               (i \in 1..Len(inflight) /\ SubmitValidated(i))
               => IF last'.result = "true"
                  THEN /\ isLoading'
                       /\ submits' = [submits EXCEPT ![FlowOf(i)].pc = "fetching"]
                  ELSE /\ isLoading' = isLoading
                       /\ Cardinality(Posted') = Cardinality(Posted)
                       /\ Len(submits') = Len(submits) - 1]_vars

\* a validated payload on its way while the form already holds other values
C14_Witness ==
    \E j \in Posted :
        /\ submits[j].checked
        /\ submits[j].formData # formData
        /\ isLoading

\* C17: isLoading is true only while a submission is in flight: once the
\* network call of every submission has ended, however it ended, isLoading is
\* false again.
C17_LoadingOnlyWhileSubmitting == isLoading => Posted # {}

====
